---- MODULE Spec2Model ----
(***************************************************************************)
(* Model of the RCNLP author-clustering scripts:                           *)
(*   - get_similar_documents   (author_clustering_document_embeddings.py)  *)
(*   - generate_reservoir_states, generate_pca_image (author_clustering.py)*)
(*   - RCNLPTagConverter.__call__ (core/converters/RCNLPTagConverter.py)   *)
(*   - the add / display / label loops of the document-embedding script    *)
(*                                                                         *)
(* Python indices are 0-based and are kept 0-based in every value the      *)
(* program produces; TLA+ sequences are 1-based, so column n of a matrix   *)
(* E is E[n+1].                                                            *)
(*                                                                         *)
(* Numbers.  Embedding coordinates are small integers.  A Euclidean        *)
(* distance sqrt(q) is carried as its radicand q (the sum of squared       *)
(* differences): sqrt is strictly increasing, so ordering and ties of the  *)
(* distances are exactly ordering and ties of the radicands.  A PCA        *)
(* coordinate is the rational c / CoordDen carried as its numerator c.     *)
(* An image intensity k * (256.0 / n_samples) is carried as the number k   *)
(* of increments together with the ratio <<256, n_samples>>.               *)
(***************************************************************************)
EXTENDS Integers, Sequences, FiniteSets

VARIABLES
    rank_in,     \* arguments of get_similar_documents: [i, E]
    rank_out,    \* its outcome: [status, value]
    pipe_in,     \* arguments of generate_reservoir_states: [doc, startup]
    pipe_out,    \* its outcome: [status, flow_calls, states, full]
    img_in,      \* arguments of generate_pca_image: [states1, states2]
    img_out,     \* its outcome: [status, image, n_ratio]
    conv_in,     \* arguments of RCNLPTagConverter.__call__: [doc, exclude, word_exclude]
    conv_out,    \* its outcome: [status, doc_array]
    script       \* the document-embedding script: its arguments, loop variables and effects

vars == <<rank_in, rank_out, pipe_in, pipe_out, img_in, img_out, conv_in, conv_out, script>>

----------------------------------------------------------------------------
(* Bounds of the model *)

MaxDocs == 3        \* columns of the embedding matrix: 0..MaxDocs
MaxCoord == 3       \* first embedding coordinate: 0..MaxCoord

(* Helpers *)

SeqsUpTo(S, n) == UNION {[1..k -> S] : k \in 0..n}

\* Python's None, and an optional integer: None or <<k>>
None == <<>>
Some(k) == <<k>>

----------------------------------------------------------------------------
(* get_similar_documents *)

\* Embedding columns of the model: two rows; the second row is 0 or 4 so that
\* the columns (0,0), (1,0), (3,4) and pairs of equidistant columns exist.
Columns == (0..MaxCoord) \X {0, 4}

RECURSIVE SumSq(_, _, _)
SumSq(u, v, k) ==
    IF k = 0 THEN 0 ELSE (u[k] - v[k]) * (u[k] - v[k]) + SumSq(u, v, k - 1)

\* scipy.spatial.distance.euclidean(u, v) = sqrt(sum((u - v)^2)), as its radicand
euclidean(u, v) == SumSq(u, v, Len(u))

\* numpy column access E[:, i]: valid for -ncols <= i < ncols, negative i
\* counts from the end; anything else raises IndexError
ColumnIndexOk(i, ncols) == i >= -ncols /\ i < ncols

Column(E, i) == IF i < 0 THEN E[Len(E) + i + 1] ELSE E[i + 1]

\* the for-loop of lines 61-66: one pair per n in range(ncols) with n != i
RECURSIVE similarities_loop_noskip(_, _, _)
similarities_loop_noskip(i, E, upto) ==
    IF upto = 0 THEN <<>>
    ELSE LET n == upto - 1
         IN  Append(similarities_loop_noskip(i, E, upto - 1),
                    <<n, euclidean(Column(E, i), Column(E, n))>>)

RECURSIVE similarities_loop(_, _, _)
similarities_loop(i, E, upto) ==
    IF upto = 0 THEN <<>>
    ELSE LET n    == upto - 1
             rest == similarities_loop(i, E, upto - 1)
         IN  IF n # i
             THEN Append(rest, <<n, euclidean(Column(E, i), Column(E, n))>>)
             ELSE rest

\* list.sort(key=lambda tup: tup[1]): a stable ascending sort.  Insert puts x
\* behind every element whose key is <= the key of x.
RECURSIVE InsertBefore(_, _)
InsertBefore(sorted, x) ==
    IF sorted = <<>> THEN <<x>>
    ELSE IF Head(sorted)[2] < x[2]
         THEN <<Head(sorted)>> \o InsertBefore(Tail(sorted), x)
         ELSE <<x>> \o sorted

RECURSIVE Insert(_, _)
Insert(sorted, x) ==
    IF sorted = <<>> THEN <<x>>
    ELSE IF Head(sorted)[2] <= x[2]
         THEN <<Head(sorted)>> \o Insert(Tail(sorted), x)
         ELSE <<x>> \o sorted

RECURSIVE SortUpTo(_, _)
SortUpTo(list, k) ==
    IF k = 0 THEN <<>> ELSE Insert(SortUpTo(list, k - 1), list[k])

sort_by_distance(list) == SortUpTo(list, Len(list))

get_similar_documents(document_index, document_embeddings) ==
    LET ncols == Len(document_embeddings)
    IN  IF /\ \E n \in 0..(ncols - 1) : n # document_index
           /\ ~ColumnIndexOk(document_index, ncols)
        THEN [status |-> "IndexError", value |-> <<>>]
        ELSE [status |-> "ok",
              value  |-> sort_by_distance(
                             similarities_loop(document_index, document_embeddings, ncols))]

RankInputs ==
    {[i |-> i, E |-> E] : i \in (-1)..MaxDocs, E \in SeqsUpTo(Columns, MaxDocs)}

NoResult == [status |-> "none", value |-> <<>>]

RankCall ==
    /\ rank_out.status = "none"
    /\ rank_out' = get_similar_documents(rank_in.i, rank_in.E)
    /\ UNCHANGED <<rank_in, pipe_in, pipe_out, img_in, img_out, conv_in, conv_out, script>>

----------------------------------------------------------------------------
(* RCNLPTagConverter *)

MaxTokens == 3      \* tokens of a document: 0..MaxTokens

\* The opening-quote tag (two backquotes) is written "BQBQ": a TLA+ string
\* cannot hold a backquote.
get_tags ==
    << "''", ",", ":", ".", "BQBQ", "-LRB-", "-RRB-", "AFX", "CC", "CD", "DT", "EX", "FW", "IN",
       "IN", "JJ", "JJR", "JJS", "LS", "MD", "NN", "NNS", "NNP", "NNPS", "PDT", "POS", "PRP",
       "PRP$", "RB", "RBR", "RBS", "RP", "SYM", "TO", "UH", "VB", "VBZ", "VBP", "VBD", "VBN",
       "VBG", "WDT", "WP", "WP$", "WRB" >>

_get_inputs_size == Len(get_tags)

\* Tags the tagger gives the tokens of the model: two that get_tags lists and
\* one ("HYPH") that it does not list.  A token is the Token object that
\* nlp(text) builds inside __call__ (line 68), with its tag and its text.
TagChoices == {"NN", "VB", "HYPH"}
WordChoices == {"a", "b"}
Tokens == [tag : TagChoices, word : WordChoices]

\* token == entry, for an entry of the caller's word_exclude list.  The Doc is
\* built inside __call__, so no entry is one of its Token objects, and a Token
\* is equal only to the same position of the same Doc: never to a text, also
\* not to its own text.
token_eq(word, entry) == FALSE

\* `word in word_exclude`: list membership, by == against every entry
token_in(word, word_exclude) == \E entry \in word_exclude : token_eq(word, entry)

\* RCNLPConverter.tag_to_symbol: the one-hot code of the first position of
\* the tag in get_tags, None for a tag that get_tags does not list.
TagPositions(tag) == {k \in 1..Len(get_tags) : get_tags[k] = tag}

Min(S) == CHOOSE x \in S : \A y \in S : x <= y

tag_to_symbol(tag) ==
    IF TagPositions(tag) = {} THEN None
    ELSE [k \in 1.._get_inputs_size |-> IF k = Min(TagPositions(tag)) THEN 1 ELSE 0]

\* numpy arrays: a 1-d array is [ndim |-> 1, data |-> vector], a 2-d array
\* is [ndim |-> 2, data |-> sequence of rows].  np.array([]) has shape (0,).
EmptyArray == [ndim |-> 1, data |-> <<>>]

atleast_2d(a) == IF a.ndim = 1 THEN <<a.data>> ELSE a.data

\* np.vstack((a, sym)): both operands are made 2-d and must have the same
\* number of columns, otherwise numpy raises ValueError.
vstack_ok(a, sym) == \A r \in 1..Len(atleast_2d(a)) : Len(atleast_2d(a)[r]) = Len(sym)

vstack(a, sym) == [ndim |-> 2, data |-> Append(atleast_2d(a), sym)]

retained(word, exclude, word_exclude) ==
    /\ word.tag \notin exclude
    /\ ~token_in(word, word_exclude)
    /\ tag_to_symbol(word.tag) # None

\* the for-loop of lines 73-84 over enumerate(doc), up to token number upto
\* (index = upto - 1); an exception ends the loop.
RECURSIVE convert_loop(_, _, _, _)
convert_loop(doc, exclude, word_exclude, upto) ==
    IF upto = 0 THEN [status |-> "ok", doc_array |-> EmptyArray]
    ELSE LET prev  == convert_loop(doc, exclude, word_exclude, upto - 1)
             index == upto - 1
             word  == doc[upto]
             sym   == tag_to_symbol(word.tag)
         IN  IF prev.status # "ok" THEN prev
             ELSE IF ~retained(word, exclude, word_exclude) THEN prev
             ELSE IF index = 0
                  THEN [status |-> "ok", doc_array |-> [ndim |-> 1, data |-> sym]]
             ELSE IF vstack_ok(prev.doc_array, sym)
                  THEN [status |-> "ok", doc_array |-> vstack(prev.doc_array, sym)]
                  ELSE [status |-> "ValueError", doc_array |-> prev.doc_array]

\* RCNLPConverter.reduce with no reduction model configured
reduce(doc_array) == doc_array

TagConverterCall(doc, exclude, word_exclude) ==
    LET r == convert_loop(doc, exclude, word_exclude, Len(doc))
    IN  IF r.status = "ok"
        THEN [status |-> "ok", doc_array |-> reduce(r.doc_array)]
        ELSE r

ConvInputs ==
    {[doc |-> d, exclude |-> e, word_exclude |-> w] :
        d \in SeqsUpTo(Tokens, MaxTokens), e \in SUBSET TagChoices, w \in SUBSET WordChoices}

NoArray == [status |-> "none", doc_array |-> EmptyArray]

ConvCall ==
    /\ conv_out.status = "none"
    /\ conv_out' = TagConverterCall(conv_in.doc, conv_in.exclude, conv_in.word_exclude)
    /\ UNCHANGED <<rank_in, rank_out, pipe_in, pipe_out, img_in, img_out, conv_in, script>>

----------------------------------------------------------------------------
(* generate_reservoir_states *)

\* create_reservoir(14, ...) (line 160): the converter's symbols are 14 wide
PosInputsSize == 14

\* RCNLPPosConverter: one one-hot symbol of width PosInputsSize per token
\* whose part of speech has a symbol, in document order, as a 2-d array (one
\* row per retained token; no row for a document without such a token).
pos_tags ==
    << "ADJ", "ADP", "ADV", "CONJ", "DET", "INTJ", "NOUN", "NUM", "PART", "PRON", "PROPN",
       "PUNCT", "SYM", "VERB" >>

PosChoices == {"NOUN", "VERB", "SPACE"}

pos_to_symbol(pos) ==
    [k \in 1..PosInputsSize |-> IF pos_tags[k] = pos THEN 1 ELSE 0]

PosConverterCall(doc) ==
    LET keep == SelectSeq(doc, LAMBDA w : \E k \in 1..PosInputsSize : pos_tags[k] = w.pos)
    IN  [status    |-> "ok",
         doc_array |-> [ndim |-> 2, data |-> [k \in 1..Len(keep) |-> pos_to_symbol(keep[k].pos)]]]

\* The reservoir flow on a 2-d array: one state per row, in row order; the
\* state at step t is a function of the rows up to t (carried as that prefix,
\* each one-hot row by the position of its 1).
HotIndex(v) == CHOOSE k \in 1..Len(v) : v[k] = 1

the_flow(x) == [t \in 1..Len(x.data) |-> [u \in 1..t |-> HotIndex(x.data[u])]]

\* states[remove_startup:] on a sequence of length L: None starts at 0, a
\* negative start counts from the end, the start is clipped to 0..L.
SliceStart(startup, L) ==
    IF startup = None THEN 0
    ELSE LET k == startup[1]
         IN  IF k < 0 THEN (IF L + k < 0 THEN 0 ELSE L + k)
             ELSE IF k > L THEN L ELSE k

slice_from_off_by_one(states, k) ==
    LET L == Len(states)
        s == SliceStart(k, L)
    IN  [j \in 1..(IF L - s - 1 < 0 THEN 0 ELSE L - s - 1) |-> states[s + 1 + j]]

slice_from(states, k) ==
    LET L == Len(states)
        s == SliceStart(k, L)
    IN  [j \in 1..(L - s) |-> states[s + j]]

\* Lines 93-94 convert the text, line 104 hands the converter's array to the
\* flow as it is and drops the start-up states.  Plotting and logging do not
\* change the result.
generate_reservoir_states(doc, remove_startup) ==
    LET conv == PosConverterCall(doc)
        full == the_flow(conv.doc_array)
    IN  [status     |-> "ok",
         flow_calls |-> <<conv.doc_array>>,
         full       |-> full,
         states     |-> slice_from(full, remove_startup)]

PipeDocs == SeqsUpTo([pos : PosChoices], MaxTokens)

PipeInputs ==
    {[doc |-> d, startup |-> k] :
        d \in PipeDocs, k \in {None} \cup {Some(j) : j \in (-1)..(MaxTokens + 1)}}

NoStates == [status |-> "none", flow_calls |-> <<>>, full |-> <<>>, states |-> <<>>]

PipeCall ==
    /\ pipe_out.status = "none"
    /\ pipe_out' = generate_reservoir_states(pipe_in.doc, pipe_in.startup)
    /\ UNCHANGED <<rank_in, rank_out, pipe_in, img_in, img_out, conv_in, conv_out, script>>

----------------------------------------------------------------------------
(* generate_pca_image *)

CoordDen == 2       \* a PCA coordinate is c / CoordDen
MaxNum == 3         \* numerators c of a coordinate: -MaxNum..MaxNum
MaxPoints == 3      \* points of the two sets together: 0..MaxPoints

ImageSize == 256

\* Points of the model: (v, v) and (v, 0) for v = c / CoordDen, c in
\* -MaxNum..MaxNum, which reaches beyond [-1,1] on both sides.
Points == {<<c, c>> : c \in (-MaxNum)..MaxNum} \cup {<<c, 0>> : c \in (-MaxNum)..MaxNum}

\* Python int(): truncation towards zero, here of the rational num / den
PyInt(num, den) == IF num >= 0 THEN num \div den ELSE -((-num) \div den)

\* int((v + 1) * 128) for v = c / CoordDen
pixel_index(c) == PyInt((c + CoordDen) * 128, CoordDen)

\* numpy indexing of an axis of length ImageSize: -ImageSize <= k < ImageSize,
\* a negative k counts from the end, anything else raises IndexError
AxisIndexOk(k) == k >= -ImageSize /\ k < ImageSize

AxisIndex(k) == IF k < 0 THEN k + ImageSize ELSE k

PixelOf(s, index1, index2, channel) ==
    <<AxisIndex(pixel_index(s[index1 + 1])), AxisIndex(pixel_index(s[index2 + 1])), channel>>

PixelOk(s, index1, index2) ==
    AxisIndexOk(pixel_index(s[index1 + 1])) /\ AxisIndexOk(pixel_index(s[index2 + 1]))

\* image[px] = n_ratio: the increment overwrites instead of accumulating
increment_overwrite(image, px) ==
    [p \in (DOMAIN image) \cup {px} |-> IF p = px THEN 1 ELSE image[p]]

\* image[px] += n_ratio on the zero image; the image is carried as the
\* number of increments of every pixel that has been incremented
increment(image, px) ==
    [p \in (DOMAIN image) \cup {px} |->
        IF p = px THEN (IF px \in DOMAIN image THEN image[px] + 1 ELSE 1) ELSE image[p]]

ZeroImage == [p \in {} |-> 0]

\* one of the two for-loops (lines 122-126, 127-131), up to point number upto
RECURSIVE raster_loop(_, _, _, _, _, _)
raster_loop(start, states, index1, index2, channel, upto) ==
    IF upto = 0 THEN start
    ELSE LET prev == raster_loop(start, states, index1, index2, channel, upto - 1)
             s    == states[upto]
         IN  IF prev.status # "ok" THEN prev
             ELSE IF ~PixelOk(s, index1, index2)
                  THEN [status |-> "IndexError", image |-> prev.image]
                  ELSE [status |-> "ok",
                        image  |-> increment(prev.image, PixelOf(s, index1, index2, channel))]

generate_pca_image(states1, states2, index1, index2) ==
    LET n_samples == Len(states1) + Len(states2)
    IN  IF n_samples = 0
        THEN [status |-> "ZeroDivisionError", image |-> ZeroImage, n_ratio |-> <<ImageSize, 0>>]
        ELSE LET first  == raster_loop([status |-> "ok", image |-> ZeroImage],
                                       states1, index1, index2, 1, Len(states1))
                 second == raster_loop(first, states2, index1, index2, 2, Len(states2))
             IN  [status  |-> second.status,
                  image   |-> second.image,
                  n_ratio |-> <<ImageSize, n_samples>>]

\* the inputs of the model: two point sets of at most MaxPoints points together
IsImgInput(x) ==
    \E n1 \in 0..MaxPoints : \E n2 \in 0..(MaxPoints - n1) :
        \E a \in [1..n1 -> Points], b \in [1..n2 -> Points] :
            x = [states1 |-> a, states2 |-> b]

NoImage == [status |-> "none", image |-> ZeroImage, n_ratio |-> <<ImageSize, 0>>]

\* the script calls generate_pca_image(pca.transform(state1), pca.transform(state2), 0, 1)
ImgCall ==
    /\ img_out.status = "none"
    /\ img_out' = generate_pca_image(img_in.states1, img_in.states2, 0, 1)
    /\ UNCHANGED <<rank_in, rank_out, pipe_in, pipe_out, img_in, conv_in, conv_out, script>>

----------------------------------------------------------------------------
(* The document-embedding script (__main__), from the parsed arguments on. *)

MaxAuthors == 7     \* --n-authors: 0..MaxAuthors
MaxDocuments == 7   \* --n-documents: 0..MaxDocuments

n_total_docs == script.n_authors * script.n_documents

ScriptIdle ==
    [pc |-> "idle", n_authors |-> 0, n_documents |-> 0, document_index |-> 0,
     trained |-> <<>>, queried |-> <<>>, labelled |-> <<>>]

ScriptStart(na, nd) ==
    [ScriptIdle EXCEPT !.pc = "add", !.n_authors = na, !.n_documents = nd]

\* np.arange(1, n_authors + 1): numpy integers 1..n_authors
author_ids(na) == [k \in 1..na |-> [type |-> "int64", value |-> k]]

\* os.path.join(a, *p) of Python 2 (the scripts are Python 2: implicit
\* relative imports in the package initialisers) calls b.startswith on every
\* component of p; a component that is no str, such as a numpy integer, has
\* no such attribute and the call raises AttributeError
path_join_ok(parts) == \A k \in 1..Len(parts) : parts[k].type = "str"

Str(text) == [type |-> "str", value |-> text]

\* lines 118-120: document_index = 0 and the first pass of the outer loop,
\* which builds author_path from args.dataset, "total" and the numpy integer
\* author_id; the exception ends the script before any classifier.train
AddExamples ==
    /\ script.pc = "add"
    /\ script.n_authors >= 1
    /\ LET author_id == author_ids(script.n_authors)[1]
       IN  script' = [script EXCEPT
                        !.document_index = 0,
                        !.pc = IF path_join_ok(<<Str("dataset"), Str("total"), author_id>>)
                               THEN "train" ELSE "AttributeError"]
    /\ UNCHANGED <<rank_in, rank_out, pipe_in, pipe_out, img_in, img_out, conv_in, conv_out>>

\* lines 118-137 without authors: the add loop has no pass, and
\* np.arange(0, n_total_docs, n_authors) raises ZeroDivisionError for the step 0
Finalize ==
    /\ script.pc = "add"
    /\ script.n_authors = 0
    /\ script' = [script EXCEPT !.document_index = 0, !.pc = "ZeroDivisionError"]
    /\ UNCHANGED <<rank_in, rank_out, pipe_in, pipe_out, img_in, img_out, conv_in, conv_out>>

ScriptEnded == script.pc \in {"AttributeError", "ZeroDivisionError", "done"}

----------------------------------------------------------------------------
(* Specifications: one per function or script, each started on every input *)
(* of its bounded input set while the other components stay idle.          *)

RankIdle == rank_in = [i |-> 0, E |-> <<>>] /\ rank_out = NoResult
PipeIdle == pipe_in = [doc |-> <<>>, startup |-> None] /\ pipe_out = NoStates
ImgIdle  == img_in = [states1 |-> <<>>, states2 |-> <<>>] /\ img_out = NoImage
ConvIdle == conv_in = [doc |-> <<>>, exclude |-> {}, word_exclude |-> {}] /\ conv_out = NoArray

InitRank ==
    /\ rank_in \in RankInputs /\ rank_out = NoResult
    /\ PipeIdle /\ ImgIdle /\ ConvIdle /\ script = ScriptIdle

InitPipe ==
    /\ pipe_in \in PipeInputs /\ pipe_out = NoStates
    /\ RankIdle /\ ImgIdle /\ ConvIdle /\ script = ScriptIdle

InitImg ==
    /\ IsImgInput(img_in) /\ img_out = NoImage
    /\ RankIdle /\ PipeIdle /\ ConvIdle /\ script = ScriptIdle

InitConv ==
    /\ conv_in \in ConvInputs /\ conv_out = NoArray
    /\ RankIdle /\ PipeIdle /\ ImgIdle /\ script = ScriptIdle

InitScript ==
    /\ script \in {ScriptStart(na, nd) : na \in 0..MaxAuthors, nd \in 0..MaxDocuments}
    /\ RankIdle /\ PipeIdle /\ ImgIdle /\ ConvIdle

NextScript == AddExamples \/ Finalize

SpecRank   == InitRank /\ [][RankCall]_vars
SpecPipe   == InitPipe /\ [][PipeCall]_vars
SpecImg    == InitImg /\ [][ImgCall]_vars
SpecConv   == InitConv /\ [][ConvCall]_vars
SpecScript == InitScript /\ [][NextScript]_vars

----------------------------------------------------------------------------
(* Properties *)

RankDone == rank_out.status # "none"
RankN == Len(rank_in.E)
RankInRange == RankN >= 2 /\ rank_in.i >= 0 /\ rank_in.i < RankN

\* The squared Euclidean distance of two columns of two rows, written out.
SqDist2(a, b) == (a[1] - b[1]) * (a[1] - b[1]) + (a[2] - b[2]) * (a[2] - b[2])

\* C1: on a matrix of n >= 2 columns and 0 <= i < n, get_similar_documents
\* returns exactly n-1 pairs: one pair (j, d) for every column j # i, none
\* for j = i, and d is the Euclidean distance of columns i and j.
C1_AllOthersRanked ==
    (RankDone /\ RankInRange) =>
        /\ rank_out.status = "ok"
        /\ Len(rank_out.value) = RankN - 1
        /\ \A j \in 0..(RankN - 1) :
              Cardinality({p \in 1..Len(rank_out.value) : rank_out.value[p][1] = j})
                  = IF j = rank_in.i THEN 0 ELSE 1
        /\ \A p \in 1..Len(rank_out.value) :
              /\ rank_out.value[p][1] \in 0..(RankN - 1)
              /\ rank_out.value[p][2] =
                     SqDist2(rank_in.E[rank_in.i + 1], rank_in.E[rank_out.value[p][1] + 1])

C1_Witness ==
    /\ RankDone /\ RankN = 3 /\ rank_in.i = 1
    /\ Len(rank_out.value) = 2
    /\ rank_out.value[1][1] = 2 /\ rank_out.value[2][1] = 0

ExampleMatrix == << <<0, 0>>, <<1, 0>>, <<3, 4>> >>

\* C2: the returned list is sorted ascending by distance and two pairs of
\* equal distance appear in ascending column index; for the columns A=(0,0),
\* B=(1,0), C=(3,4) the ranking of A is [(B, 1.0), (C, 5.0)] (radicands 1, 25).
C2_SortedStable ==
    (RankDone /\ rank_out.status = "ok") =>
        /\ \A p, q \in 1..Len(rank_out.value) :
              p < q =>
                 /\ rank_out.value[p][2] <= rank_out.value[q][2]
                 /\ rank_out.value[p][2] = rank_out.value[q][2]
                       => rank_out.value[p][1] < rank_out.value[q][1]
        /\ (rank_in.E = ExampleMatrix /\ rank_in.i = 0)
              => rank_out.value = << <<1, 1 * 1>>, <<2, 5 * 5>> >>

C2_Witness ==
    /\ RankDone /\ rank_out.status = "ok" /\ RankInRange
    /\ Len(rank_out.value) = 2
    /\ rank_out.value[1][2] = rank_out.value[2][2]
    /\ rank_out.value[1][2] > 0

\* C3: get_similar_documents fails with an error whenever the matrix has
\* fewer than 2 columns; it never returns a list for such a matrix.
C3_FewColumnsFail ==
    (RankDone /\ RankN < 2) => rank_out.status # "ok"

PipeDone == pipe_out.status # "none"

\* C4: for a state sequence of length L and a start-up count k, 0 <= k < L,
\* the returned states are the suffix states[k:] in the original order, of
\* length L - k; for k = 0 they are the full state sequence.
C4_SuffixReturned ==
    (PipeDone /\ pipe_out.status = "ok" /\ pipe_in.startup # None) =>
        LET k == pipe_in.startup[1]
            L == Len(pipe_out.full)
        IN  (k >= 0 /\ k < L) =>
               /\ Len(pipe_out.states) = L - k
               /\ \A j \in 1..(L - k) : pipe_out.states[j] = pipe_out.full[k + j]
               /\ k = 0 => pipe_out.states = pipe_out.full

C4_Witness ==
    /\ PipeDone /\ pipe_out.status = "ok"
    /\ pipe_in.startup = Some(1)
    /\ Len(pipe_out.full) = 3
    /\ Len(pipe_out.states) = 2

\* C5: dropping the start-up states fails with a configuration error whenever
\* the start-up count is >= the length of the state sequence; no (empty)
\* state sequence is returned then.  (Stated for a flow that produced at
\* least one state; the empty vector sequence is the case of C9.)
C5_StartupTooLargeFails ==
    (PipeDone /\ Len(pipe_out.full) >= 1 /\ pipe_in.startup # None) =>
        (pipe_in.startup[1] >= Len(pipe_out.full) => pipe_out.status # "ok")

ImgDone == img_out.status # "none"

AllPoints == [k \in 1..(Len(img_in.states1) + Len(img_in.states2)) |->
                 IF k <= Len(img_in.states1)
                 THEN [point |-> img_in.states1[k], channel |-> 1]
                 ELSE [point |-> img_in.states2[k - Len(img_in.states1)], channel |-> 2]]

InUnitRange(c) == c >= -CoordDen /\ c <= CoordDen

PointInUnitSquare(pt) == InUnitRange(pt[1]) /\ InUnitRange(pt[2])

\* floor((coord + 1) * 128) for coord = c / CoordDen
FloorPixel(c) == ((c + CoordDen) * 128) \div CoordDen

\* C6: every point whose two coordinates lie in [-1,1] is mapped to a pixel
\* inside the 256x256 image, each pixel coordinate being floor((coord+1)*128)
\* and within 0..255; (0,0) goes to (128,128) and (1,1) to (255,255).
C6_UnitSquareInsideImage ==
    (ImgDone /\ AllPoints # <<>>
        /\ \A k \in 1..Len(AllPoints) : PointInUnitSquare(AllPoints[k].point)) =>
        /\ img_out.status = "ok"
        /\ \A k \in 1..Len(AllPoints) :
              LET pt == AllPoints[k].point
                  r  == IF pt[1] = CoordDen THEN 255 ELSE FloorPixel(pt[1])
                  c  == IF pt[2] = CoordDen THEN 255 ELSE FloorPixel(pt[2])
              IN  /\ r \in 0..255 /\ c \in 0..255
                  /\ <<r, c, AllPoints[k].channel>> \in DOMAIN img_out.image

RECURSIVE SumCounts(_, _)
SumCounts(image, S) ==
    IF S = {} THEN 0
    ELSE LET px == CHOOSE x \in S : TRUE
         IN  image[px] + SumCounts(image, S \ {px})

\* The points that the floor formula sends to pixel px (row, column, channel).
PointsAt(px) ==
    {k \in 1..Len(AllPoints) :
        /\ AllPoints[k].channel = px[3]
        /\ FloorPixel(AllPoints[k].point[1]) = px[1]
        /\ FloorPixel(AllPoints[k].point[2]) = px[2]}

InsideImage(pt) == FloorPixel(pt[1]) \in 0..255 /\ FloorPixel(pt[2]) \in 0..255

\* C7: for two point sets of sizes n1 + n2 >= 1 whose points all map inside
\* the image, 256/(n1+n2) is added once per point to that point's pixel
\* (first set in channel 1, second set in channel 2, accumulating on a shared
\* pixel), so the intensity summed over the image is 256; a single point
\* yields one increment of 256.
C7_TotalInkConstant ==
    (ImgDone /\ AllPoints # <<>>
        /\ \A k \in 1..Len(AllPoints) : InsideImage(AllPoints[k].point)) =>
        /\ img_out.status = "ok"
        /\ img_out.n_ratio = <<256, Len(AllPoints)>>
        /\ \A k \in 1..Len(AllPoints) :
              <<FloorPixel(AllPoints[k].point[1]), FloorPixel(AllPoints[k].point[2]),
                AllPoints[k].channel>> \in DOMAIN img_out.image
        /\ \A px \in DOMAIN img_out.image : img_out.image[px] = Cardinality(PointsAt(px))
        /\ SumCounts(img_out.image, DOMAIN img_out.image) * img_out.n_ratio[1]
              = 256 * img_out.n_ratio[2]
        /\ Len(AllPoints) = 1 =>
              /\ Cardinality(DOMAIN img_out.image) = 1
              /\ \A px \in DOMAIN img_out.image :
                    img_out.image[px] * img_out.n_ratio[1] = 256 * img_out.n_ratio[2]
                    /\ img_out.n_ratio[2] = 1

C7_Witness ==
    /\ ImgDone /\ img_out.status = "ok"
    /\ Len(img_in.states1) = 2 /\ Len(img_in.states2) = 1
    /\ \E px \in DOMAIN img_out.image : px[3] = 1 /\ img_out.image[px] = 2
    /\ \E px \in DOMAIN img_out.image : px[3] = 2 /\ img_out.image[px] = 1

ConvDone == conv_out.status # "none"

\* The rows (time steps) an array holds.
VectorsOf(a) ==
    IF a.ndim = 2 THEN a.data
    ELSE IF a.data = <<>> THEN <<>> ELSE <<a.data>>

\* The symbols of the retained tokens of the document, in document order; a
\* token is word-excluded when the test of line 74 (`word in word_exclude`)
\* says so.
RetainedSymbols(doc, exclude, word_exclude) ==
    LET keep == SelectSeq(doc, LAMBDA w : /\ w.tag \notin exclude
                                          /\ ~token_in(w, word_exclude)
                                          /\ \E k \in 1..Len(get_tags) : get_tags[k] = w.tag)
    IN  [k \in 1..Len(keep) |-> tag_to_symbol(keep[k].tag)]

\* C8: RCNLPTagConverter.__call__ produces exactly one vector per retained
\* token, in document order, for every document and exclusion set, also when
\* the first token (index 0) is not retained while later tokens are.
C8_OneVectorPerRetainedToken ==
    ConvDone =>
        /\ conv_out.status = "ok"
        /\ VectorsOf(conv_out.doc_array)
              = RetainedSymbols(conv_in.doc, conv_in.exclude, conv_in.word_exclude)

\* C9: a document whose vector sequence is empty after filtering makes the
\* conversion fail visibly; no zero-length sequence is returned for the
\* reservoir.
C9_EmptySequenceFails ==
    (ConvDone /\ RetainedSymbols(conv_in.doc, conv_in.exclude, conv_in.word_exclude) = <<>>) =>
        conv_out.status # "ok"

\* C10: documents are added author by author with the consecutive indices
\* 0..n_authors*n_documents-1; for n_authors >= 1 and n_documents >= 1 the
\* display loop queries exactly the first document of every author
\* (a*n_documents for a in 0..n_authors-1), and the label of every plotted
\* document is the author (counted from 0) under which it was added.
C10_FirstDocumentOfEachAuthor ==
    (ScriptEnded /\ script.n_authors >= 1 /\ script.n_documents >= 1) =>
        /\ script.pc = "done"
        /\ Len(script.trained) = n_total_docs
        /\ \A d \in 0..(n_total_docs - 1) :
              /\ script.trained[d + 1][2] = d
              /\ script.trained[d + 1][1] - 1 = d \div script.n_documents
        /\ script.queried = [a \in 1..script.n_authors |-> (a - 1) * script.n_documents]
        /\ Len(script.labelled) = n_total_docs
        /\ \A d \in 0..(n_total_docs - 1) :
              /\ script.labelled[d + 1][1] = d
              /\ script.labelled[d + 1][2] = script.trained[d + 1][1] - 1

====
